---- MODULE Spec2Model ----
(***************************************************************************)
(* Model of clippings.py: the local post store (one markdown file for the  *)
(* target date), the draft run (create_or_update_post), the publish run    *)
(* (publish_to_microblog, save_micropub_url), the renderer                 *)
(* (format_bookmark) and the date filter of fetch_bookmarks.               *)
(*                                                                         *)
(* Text is a sequence of characters.  A run of letters or digits that no   *)
(* operation of the program looks into ("title", "micropub_url", "2026",   *)
(* ...) is written as one element of the sequence; every character the     *)
(* program tests for (hyphen, colon, double quote, space, tab, newline) is *)
(* an element of its own.                                                  *)
(***************************************************************************)
EXTENDS Integers, Sequences, FiniteSets, TLC

VARIABLES
    file,       \* content of <content_dir>/<date>.md, or NoFile
    dirExists,  \* whether content_dir exists
    remote,     \* number of posts the publish endpoint has created for the date
    runs,       \* number of runs of the program so far
    config,     \* get_config(): the settings read from the environment
    last,       \* record of the latest run: inputs, file before, requests sent, outcome
    pureIn,     \* argument of the pure function under check (format_bookmark / date filter)
    pureOut     \* its result, or Unset

vars == <<file, dirExists, remote, runs, config, last, pureIn, pureOut>>

-----------------------------------------------------------------------------
(* Bounds *)

MaxRuns == 4
MaxHighlights == 2
MaxFetched == 2

-----------------------------------------------------------------------------
(* Python values *)

None == <<"<None>">>
NoFile == <<"<no file>">>
Unset == <<"<unset>">>

Truthy(s) == s # None /\ s # <<>>

NL == "\n"
TAB == "\t"
SP == " "
QUOTE == "\""
Whitespace == {SP, NL, TAB}

-----------------------------------------------------------------------------
(* str methods *)

Drop(s, n) == SubSeq(s, n + 1, Len(s))

StartsWith(s, p) == Len(s) >= Len(p) /\ SubSeq(s, 1, Len(p)) = p

RECURSIVE LStripChars(_, _)
LStripChars(s, chars) ==
    IF s # <<>> /\ Head(s) \in chars THEN LStripChars(Tail(s), chars) ELSE s

RECURSIVE RStripChars(_, _)
RStripChars(s, chars) ==
    IF s # <<>> /\ s[Len(s)] \in chars
    THEN RStripChars(SubSeq(s, 1, Len(s) - 1), chars)
    ELSE s

\* s.strip(chars)
StripChars(s, chars) == RStripChars(LStripChars(s, chars), chars)

\* s.strip()
Strip(s) == StripChars(s, Whitespace)

\* s.find(p, i - 1) + 1: the least index from i on at which p occurs in s,
\* 0 when there is none
RECURSIVE FindFrom(_, _, _)
FindFrom(s, p, i) ==
    IF i + Len(p) - 1 > Len(s) THEN 0
    ELSE IF \A k \in 1..Len(p) : s[i + k - 1] = p[k] THEN i
    ELSE FindFrom(s, p, i + 1)

Find(s, p) == FindFrom(s, p, 1)

\* p in s
Contains(s, p) == Find(s, p) # 0

\* s.split(sep, maxsplit); maxsplit = -1 splits at every occurrence
RECURSIVE Split(_, _, _)
Split(s, sep, maxsplit) ==
    LET i == Find(s, sep)
    IN  IF maxsplit = 0 \/ i = 0
        THEN <<s>>
        ELSE <<SubSeq(s, 1, i - 1)>>
             \o Split(Drop(s, i + Len(sep) - 1), sep, maxsplit - 1)

\* s.split(): the maximal runs of non-whitespace characters
RECURSIVE Words(_)
Words(s) ==
    LET t == LStripChars(s, Whitespace)
        ws == {i \in 1..Len(t) : t[i] \in Whitespace}
        e == IF ws = {} THEN Len(t) + 1 ELSE CHOOSE i \in ws : \A j \in ws : i <= j
    IN  IF t = <<>> THEN <<>>
        ELSE <<SubSeq(t, 1, e - 1)>> \o Words(Drop(t, e - 1))

\* sep.join(parts)
RECURSIVE Join(_, _)
Join(parts, sep) ==
    IF parts = <<>> THEN <<>>
    ELSE IF Len(parts) = 1 THEN parts[1]
    ELSE parts[1] \o sep \o Join(Tail(parts), sep)

\* s.strip() in place of " ".join(s.split())
Collapse_strip(s) == Strip(s)

\* " ".join(s.split())
Collapse(s) == Join(Words(s), <<SP>>)

\* s.replace(old, new, 1)
ReplaceFirst(s, old, new) ==
    LET i == Find(s, old)
    IN  IF i = 0 THEN s
        ELSE SubSeq(s, 1, i - 1) \o new \o Drop(s, i + Len(old) - 1)

-----------------------------------------------------------------------------
(* The target date (one date, hence one post file) and the settings *)

DateStr == <<"2026-01-17">>          \* strftime("%Y-%m-%d")
TitleDate == <<"January 17, 2026">>  \* strftime("%B %-d, %Y")
KEY == "micropub_url"
DefaultTitle == <<"Clippings for">> \o <<SP>> \o TitleDate

\* MICROBLOG_CATEGORY: empty (no category) or a category name
Categories == {<<>>, <<"Links">>}
\* PUBLISH_TIME, HH:MM
PublishTime == <<"23", ":", "59">>
\* MICROBLOG_TOKEN: unset or set
Tokens == {<<>>, <<"tok">>}

\* str.lower() on the characters of the model
LowerChar(c) == IF c = "Links" THEN "links" ELSE c
Lower(s) == [i \in 1..Len(s) |-> LowerChar(s[i])]

-----------------------------------------------------------------------------
(* format_bookmark *)

Indent == <<SP, SP, SP, SP>>
EmDash == "<em dash>"

RECURSIVE FormatHighlights(_)
FormatHighlights(highlights) ==
    IF highlights = <<>> THEN <<>>
    ELSE LET hl == Head(highlights)
             hl_text == Strip(hl.text)
             hl_note == Strip(hl.note)
         IN  (IF hl_text # <<>>
              THEN <<NL, NL>> \o Indent \o <<">", SP>> \o Collapse(hl_text)
                   \o (IF hl_note # <<>>
                       THEN <<NL>> \o Indent \o <<">", NL>> \o Indent
                            \o <<">", SP, EmDash, SP, "*">> \o hl_note \o <<"*">>
                       ELSE <<>>)
              ELSE <<>>)
             \o FormatHighlights(Tail(highlights))

format_bookmark(bookmark) ==
    LET excerpt == Strip(bookmark.excerpt)
        note == Strip(bookmark.note)
    IN  <<"-", SP, "[">> \o bookmark.title \o <<"]", "(">> \o bookmark.url \o <<")">>
        \o (IF excerpt # <<>> THEN <<NL, NL>> \o Indent \o Collapse(excerpt) ELSE <<>>)
        \o (IF note # <<>>
            THEN <<NL, NL>> \o Indent \o <<"*">> \o Collapse(note) \o <<"*">>
            ELSE <<>>)
        \o FormatHighlights(bookmark.highlights)

-----------------------------------------------------------------------------
(* generate_frontmatter *)

generate_frontmatter(micropub_url, category) ==
    <<"-", "-", "-", NL, "title", ":", SP, QUOTE>> \o DefaultTitle \o <<QUOTE, NL>>
    \o <<"date", ":", SP>> \o DateStr \o <<NL, "type", ":", SP, "post">>
    \o (IF Truthy(category)
        THEN <<NL, "categories", ":", NL, "-", SP, QUOTE>> \o category \o <<QUOTE>>
        ELSE <<>>)
    \o (IF Truthy(micropub_url) THEN <<NL, KEY, ":", SP>> \o micropub_url ELSE <<>>)
    \o <<NL, "-", "-", "-">>

-----------------------------------------------------------------------------
(* parse_existing_post: the frontmatter mapping and the body.  The third   *)
(* result, the links found in the body, is only counted in a log message.  *)

Dashes == <<"-", "-", "-">>

\* frontmatter.get(key, default)
Get(frontmatter, key, default) ==
    IF key \in DOMAIN frontmatter THEN frontmatter[key] ELSE default

RECURSIVE ParseLines(_, _)
ParseLines(lines, frontmatter) ==
    IF lines = <<>> THEN frontmatter
    ELSE LET line == Head(lines)
             kv == Split(line, <<":">>, 1)
         IN  IF Contains(line, <<":">>)
             THEN ParseLines(Tail(lines),
                             (Strip(kv[1]) :> StripChars(Strip(kv[2]), {QUOTE}))
                                 @@ frontmatter)
             ELSE ParseLines(Tail(lines), frontmatter)

parse_existing_post(content) ==
    LET parts == Split(content, Dashes, 2)
        split == StartsWith(content, Dashes) /\ Len(parts) >= 3
        frontmatter_str == IF split THEN Strip(parts[2]) ELSE <<>>
        body == IF split THEN Strip(parts[3]) ELSE content
    IN  [frontmatter |-> ParseLines(Split(frontmatter_str, <<NL>>, -1), <<>>),
         body |-> body]

\* the remote identifier a post file records: frontmatter.get("micropub_url")
Recorded(content) ==
    IF content = NoFile THEN None
    ELSE Get(parse_existing_post(content).frontmatter, <<KEY>>, None)

BodyOf(content) == parse_existing_post(content).body

-----------------------------------------------------------------------------
(* save_micropub_url *)

\* re.sub(r'micropub_url:.*', 'micropub_url: <url>', content): every match
\* runs from the key to the end of its line
RECURSIVE ReSub(_, _)
ReSub(content, url) ==
    LET i == Find(content, <<KEY, ":">>)
        rest == Drop(content, i + 1)
        eol == Find(rest, <<NL>>)
        after == IF eol = 0 THEN <<>> ELSE Drop(rest, eol - 1)
    IN  IF i = 0 THEN content
        ELSE SubSeq(content, 1, i - 1) \o <<KEY, ":", SP>> \o url \o ReSub(after, url)

save_micropub_url(content, url) ==
    IF Contains(content, <<KEY, ":">>)
    THEN ReSub(content, url)
    ELSE ReplaceFirst(content, <<NL, "-", "-", "-", NL>>,
                      <<NL, KEY, ":", SP>> \o url \o <<NL, "-", "-", "-", NL>>)

-----------------------------------------------------------------------------
(* Inputs of the runs *)

Bookmark(title, url, excerpt, note, highlights) ==
    [title |-> title, url |-> url, excerpt |-> excerpt, note |-> note,
     highlights |-> highlights]

\* bookmarks the bookmark service returns for the date
PlainBookmark == Bookmark(<<"A">>, <<"u1">>, <<>>, <<>>, <<>>)
KeyBookmark ==
    Bookmark(<<"B">>, <<"u2">>, <<"about", SP, TAB, KEY, ":", SP, "x">>, <<>>, <<>>)
DashBookmark ==
    Bookmark(<<"C", "-", "-", "-", "D">>, <<"u3">>, <<>>, <<"n">>,
             <<[text |-> <<"h">>, note |-> <<>>]>>)

\* the fetched lists of a draft run, in fetch order
BookmarkLists ==
    { <<>>,
      <<PlainBookmark>>,
      <<KeyBookmark>>,
      <<DashBookmark>>,
      <<PlainBookmark, DashBookmark>>,
      <<DashBookmark, PlainBookmark>> }

\* Location headers the publish endpoint may answer with; <<>> is a missing header
Location1 == <<"https", ":", "//p/1">>
Location2 == <<"https", ":", "//p/2">>
DashLocation == <<"https", ":", "//p/a", "-", "-", "-", "b">>
Locations == {<<>>, Location1, Location2, DashLocation}

Statuses == {200, 201, 202, 204, 400}

Responses ==
    { [status |-> s, location |-> l] : s \in {201, 202}, l \in Locations }
    \cup { [status |-> s, location |-> l] : s \in Statuses, l \in {<<>>, Location1} }

NoResponse == [status |-> 0, location |-> <<>>]

\* post files found in the content directory before the first run
InitialFiles ==
    { NoFile,
      <<>>,
      generate_frontmatter(None, <<>>) \o <<NL>> }

-----------------------------------------------------------------------------
(* create_or_update_post *)

RECURSIVE FormatAll(_)
FormatAll(bookmarks) ==
    IF bookmarks = <<>> THEN <<>>
    ELSE <<NL>> \o format_bookmark(Head(bookmarks)) \o FormatAll(Tail(bookmarks))

\* the micropub_url kept from the file being regenerated
preserved_url(before) ==
    IF before # NoFile
    THEN Get(parse_existing_post(before).frontmatter, <<KEY>>, None)
    ELSE None

\* create_or_update_post without the return on an empty bookmark list
create_or_update_post_always(before, bookmarks, category) ==
    [written |-> generate_frontmatter(preserved_url(before), category) \o <<NL>>
                 \o FormatAll(bookmarks) \o <<NL>>,
     result |-> IF bookmarks = <<>> THEN "None" ELSE "filepath"]

\* the file after the call and the value returned
create_or_update_post(before, bookmarks, category) ==
    IF bookmarks = <<>>
    THEN [written |-> before, result |-> "None"]
    ELSE [written |-> generate_frontmatter(preserved_url(before), category) \o <<NL>>
                      \o FormatAll(bookmarks) \o <<NL>>,
          result |-> "filepath"]

-----------------------------------------------------------------------------
(* publish_to_microblog *)

\* the precondition check without the test of the body
no_post_any_body(content, token) ==
    \/ content = NoFile
    \/ ~Truthy(token)

\* the fatal precondition failures: no draft, no token, no content
no_post(content, token) ==
    \/ content = NoFile
    \/ ~Truthy(token)
    \/ Strip(parse_existing_post(content).body) = <<>>

Headers(token) == <<"Bearer", SP>> \o token

update_request(token, existing_url, title, body) ==
    [method |-> "POST", authorization |-> Headers(token),
     content_type |-> "application/json",
     data |-> [action |-> "update", url |-> existing_url,
               replace |-> [content |-> <<body>>, name |-> <<title>>]]]

create_request(token, title, body, post_category, publish_time) ==
    LET slug == IF Truthy(post_category)
                THEN Lower(post_category) \o <<"-">> \o DateStr
                ELSE DateStr
        data == [h |-> "entry", name |-> title, content |-> body,
                 published |-> DateStr \o <<"T">> \o publish_time \o <<":", "00">>,
                 mp_slug |-> slug]
    IN  [method |-> "POST", authorization |-> Headers(token),
         content_type |-> "application/x-www-form-urlencoded",
         data |-> IF Truthy(post_category)
                  THEN data @@ [category |-> post_category]
                  ELSE data]

\* the request the run sends
micropub_request(content, post_category, publish_time, token) ==
    LET post == parse_existing_post(content)
        title == Get(post.frontmatter, <<"title">>, DefaultTitle)
        existing_url == Get(post.frontmatter, <<KEY>>, None)
    IN  IF Truthy(existing_url)
        THEN update_request(token, existing_url, title, post.body)
        ELSE create_request(token, title, post.body, post_category, publish_time)

\* the handling of a response that saves a Location header whatever the status
handle_response_any_status(content, response) ==
    LET existing_url == Get(parse_existing_post(content).frontmatter, <<KEY>>, None)
    IN  IF Truthy(existing_url)
        THEN [written |-> content, result |-> response.status \in {200, 204}]
        ELSE [written |-> IF response.location # <<>>
                          THEN save_micropub_url(content, response.location)
                          ELSE content,
              result |-> response.status \in {201, 202}]

\* the file after the response was handled, the value returned
handle_response(content, response) ==
    LET existing_url == Get(parse_existing_post(content).frontmatter, <<KEY>>, None)
    IN  IF Truthy(existing_url)
        THEN [written |-> content, result |-> response.status \in {200, 204}]
        ELSE IF response.status \in {201, 202}
        THEN [written |-> IF response.location # <<>>
                          THEN save_micropub_url(content, response.location)
                          ELSE content,
              result |-> TRUE]
        ELSE [written |-> content, result |-> FALSE]

-----------------------------------------------------------------------------
(* The runs of the program for the date *)

Run(op, bookmarks, token, response, sent, result) ==
    [op |-> op, before |-> file, bookmarks |-> bookmarks, token |-> token,
     response |-> response, sent |-> sent, result |-> result]

\* main() in draft mode, after the fetch
Draft(bookmarks) ==
    LET post == create_or_update_post(file, bookmarks, config.post_category)
    IN  /\ runs < MaxRuns
        /\ runs' = runs + 1
        /\ dirExists' = TRUE
        /\ file' = post.written
        /\ last' = Run("draft", bookmarks, <<>>, NoResponse, <<>>, post.result)
        /\ UNCHANGED <<remote, config, pureIn, pureOut>>

\* the two kinds of request: the form-encoded create and the JSON update
IsCreate(request) == request.content_type = "application/x-www-form-urlencoded"
IsUpdate(request) == request.content_type = "application/json"

\* main() in publish mode
Publish(token, response) ==
    /\ runs < MaxRuns
    /\ runs' = runs + 1
    /\ UNCHANGED <<dirExists, config, pureIn, pureOut>>
    /\ IF no_post(file, token)
       THEN /\ response = NoResponse
            /\ file' = file
            /\ remote' = remote
            /\ last' = Run("publish", <<>>, token, NoResponse, <<>>, "exit 1")
       ELSE LET request == micropub_request(file, config.post_category, config.publish_time, token)
                handled == handle_response(file, response)
            IN  /\ response \in Responses
                /\ file' = handled.written
                /\ remote' = IF IsCreate(request) /\ response.status \in {201, 202}
                             THEN remote + 1 ELSE remote
                /\ last' = Run("publish", <<>>, token, response, <<request>>,
                               IF handled.result THEN "True" ELSE "False")

NoRun ==
    [op |-> "none", before |-> NoFile, bookmarks |-> <<>>, token |-> <<>>, response |-> NoResponse, sent |-> <<>>, result |-> "None"]

Init ==
    /\ file \in InitialFiles
    /\ dirExists \in BOOLEAN
    /\ (file # NoFile => dirExists)
    /\ remote = 0
    /\ runs = 0
    /\ config \in [post_category : Categories, publish_time : {PublishTime}]
    /\ last = NoRun
    /\ pureIn = Unset
    /\ pureOut = Unset

DraftRun == \E bookmarks \in BookmarkLists : Draft(bookmarks)

PublishRun == \E token \in Tokens, response \in Responses \cup {NoResponse} :
                Publish(token, response)

Next == DraftRun \/ PublishRun

Spec == Init /\ [][Next]_vars

-----------------------------------------------------------------------------
(* Properties of the draft run *)

\* the rendering of a bookmark list: the blocks of the bookmarks, in order,
\* one per line
RECURSIVE Rendering(_)
Rendering(bookmarks) ==
    IF Len(bookmarks) = 1 THEN format_bookmark(bookmarks[1])
    ELSE Rendering(SubSeq(bookmarks, 1, Len(bookmarks) - 1))
         \o <<NL>> \o format_bookmark(bookmarks[Len(bookmarks)])

Regenerated ==
    last.op = "draft" /\ last.before # NoFile /\ last.bookmarks # <<>>

\* The post file records the identifier url: it starts with the frontmatter
\* that generate_frontmatter writes for url; with None, the frontmatter that
\* has no micropub_url line.
Records(content, url) ==
    \E category \in Categories :
        StartsWith(content, generate_frontmatter(url, category) \o <<NL>>)

Identifiers == Locations \ {<<>>}

\* C1: a draft run with a non-empty bookmark list over an existing post file
\* leaves a file whose body is exactly the rendering of the fetched bookmarks
\* in fetch order, and whose frontmatter records the same micropub_url
\* string as before the run, whatever the identifier (none when none was
\* recorded).
C1_RegenerationKeepsIdentifier ==
    Regenerated =>
        /\ BodyOf(file) = Rendering(last.bookmarks)
        /\ \A url \in Identifiers \cup {None} :
              Records(last.before, url) => Records(file, url)

\* C2: a draft run that fetched no bookmark returns None and leaves the post
\* file as it was: absent if it was absent, the same content otherwise.
C2_NoBookmarksNoWrite ==
    (last.op = "draft" /\ last.bookmarks = <<>>) =>
        /\ last.result = "None"
        /\ file = last.before

C2_Witness ==
    /\ last.op = "draft"
    /\ last.bookmarks = <<>>
    /\ last.result = "None"
    /\ Truthy(Recorded(file))
    /\ BodyOf(file) # <<>>

-----------------------------------------------------------------------------
(* Properties of the publish run *)

Published == last.op = "publish" /\ last.sent # <<>>

CreateAnswered ==
    /\ Published
    /\ IsCreate(last.sent[1])
    /\ last.response.status \in {201, 202}

\* C3: when a create request for a file without recorded identifier is
\* answered 201/202 with a non-empty Location, the file afterwards records
\* exactly that location as micropub_url and its body is unchanged.
C3_CreateRecordsLocation ==
    (CreateAnswered /\ last.response.location # <<>>) =>
        /\ Recorded(file) = last.response.location
        /\ BodyOf(file) = BodyOf(last.before)

\* a run keeps every identifier the file records, and the requests of a
\* publish run are updates of that identifier
C4_Step ==
    \A url \in Identifiers :
        Records(file, url) =>
            /\ Records(file', url)
            /\ last'.op = "publish" =>
                  \A i \in 1..Len(last'.sent) :
                      /\ IsUpdate(last'.sent[i])
                      /\ last'.sent[i].data.url = url

\* C4: once the post file records a remote identifier, every later run
\* keeps it recorded with the same value, and every later publish run sends
\* no create request: the requests it sends are updates that target the
\* identifier.
C4_IdentifierPersists == [][C4_Step]_vars

CreateFields == {"h", "name", "content", "published", "mp_slug"}

\* C5: a publish run whose preconditions hold sends exactly one POST: the
\* JSON update of the recorded identifier (replacing content and name) if
\* the frontmatter records an identifier, and the form-encoded create if it
\* records none, with a category field only when a category is configured.
C5_ExactlyOneRequest ==
    (last.op = "publish" /\ ~no_post(last.before, last.token)) =>
        LET post == parse_existing_post(last.before)
            title == Get(post.frontmatter, <<"title">>, DefaultTitle)
        IN  /\ Len(last.sent) = 1
            /\ last.sent[1].method = "POST"
            /\ IsUpdate(last.sent[1]) # IsCreate(last.sent[1])
            /\ IsCreate(last.sent[1]) <=> Records(last.before, None)
            /\ \A url \in Identifiers :
                  Records(last.before, url) =>
                      /\ IsUpdate(last.sent[1])
                      /\ last.sent[1].data.action = "update"
                      /\ last.sent[1].data.url = url
                      /\ DOMAIN last.sent[1].data.replace = {"content", "name"}
            /\ IsCreate(last.sent[1]) =>
                  /\ DOMAIN last.sent[1].data =
                        CreateFields \cup (IF config.post_category # <<>>
                                           THEN {"category"} ELSE {})
                  /\ last.sent[1].data.h = "entry"
                  /\ last.sent[1].data.name = title
                  /\ last.sent[1].data.content = post.body
                  /\ config.post_category # <<>> =>
                        last.sent[1].data.category = config.post_category

Failed ==
    /\ Published
    /\ \/ IsCreate(last.sent[1]) /\ last.response.status \notin {201, 202}
       \/ IsUpdate(last.sent[1]) /\ last.response.status \notin {200, 204}

\* C6: when the endpoint answers outside the success set (201/202 for a
\* create, 200/204 for an update) the run returns False, it does not exit,
\* and the post file is unchanged.
C6_FailureLeavesFile ==
    Failed => last.result = "False" /\ file = last.before

C6_Witness ==
    /\ Failed
    /\ IsCreate(last.sent[1])
    /\ last.response = [status |-> 200, location |-> Location1]
    /\ last.result = "False"

\* a publish run that finds no post file, or a post file with a blank body
NoPost == file = NoFile \/ Strip(BodyOf(file)) = <<>>

C7_Step ==
    (last'.op = "publish" /\ runs' = runs + 1 /\ NoPost) =>
        /\ last'.result = "exit 1"
        /\ last'.sent = <<>>
        /\ file' = file
        /\ dirExists' = dirExists
        /\ remote' = remote

\* C7: a publish run for a date without post file, or with a post file whose
\* body is empty or blank, exits with status 1, sends no request and leaves
\* the file and the content directory as they were.
C7_NoPostIsFatal == [][C7_Step]_vars

C7_Witness ==
    /\ last.op = "publish"
    /\ last.before # NoFile
    /\ Recorded(last.before) = None
    /\ Len(last.before) > 0
    /\ Strip(BodyOf(last.before)) = <<>>
    /\ Truthy(last.token)
    /\ last.result = "exit 1"

\* C10: at most one create request for the date is answered with success:
\* after a publish run whose create request succeeded the file records a
\* remote identifier, so that later publish runs send updates.
C10_NoDuplicateRemotePost ==
    /\ remote <= 1
    /\ (CreateAnswered /\ last.response.location # <<>>) => Truthy(Recorded(file))

-----------------------------------------------------------------------------
(* format_bookmark as a function of its argument *)

Excerpts == {<<>>, <<SP>>, <<"e", SP, SP, "f">>, <<NL, "e", NL, NL, "f", TAB>>}
Notes == {<<>>, <<"n", TAB, SP, "m">>}
Highlights ==
    { [text |-> <<"h">>, note |-> <<>>],
      [text |-> <<SP>>, note |-> <<"x">>],
      [text |-> <<"h", NL, SP, "i">>, note |-> <<SP, "p", SP, SP, "q">>] }

FormatInputs ==
    { Bookmark(<<"T">>, <<"u">>, e, n, hs) :
        e \in Excerpts, n \in Notes,
        hs \in UNION { [1..k -> Highlights] : k \in 0..MaxHighlights } }

InitFormat ==
    /\ file = NoFile
    /\ dirExists = FALSE
    /\ remote = 0
    /\ runs = 0
    /\ config = [post_category |-> <<>>, publish_time |-> PublishTime]
    /\ last = NoRun
    /\ pureIn \in FormatInputs
    /\ pureOut = Unset

Format ==
    /\ pureOut = Unset
    /\ pureOut' = format_bookmark(pureIn)
    /\ UNCHANGED <<file, dirExists, remote, runs, config, last, pureIn>>

NextFormat == Format

SpecFormat == InitFormat /\ [][NextFormat]_vars

\* the blocks of a rendering: the parts a blank line separates
Blocks(rendered) == Split(rendered, <<NL, NL>>, -1)

Blank(s) == \A i \in 1..Len(s) : s[i] \in Whitespace

Count(b) == IF b THEN 1 ELSE 0

\* no whitespace but single spaces between words
SingleSpaced(s) ==
    /\ \A i \in 1..Len(s) : s[i] \in Whitespace => s[i] = SP
    /\ \A i \in 1..(Len(s) - 1) : ~(s[i] = SP /\ s[i + 1] = SP)
    /\ s # <<>> => s[1] # SP /\ s[Len(s)] # SP

\* the lines of a block without their indentation
RECURSIVE UnindentAll(_)
UnindentAll(lines) ==
    IF lines = <<>> THEN <<>>
    ELSE <<IF StartsWith(Head(lines), Indent) THEN Drop(Head(lines), 4)
           ELSE Head(lines)>> \o UnindentAll(Tail(lines))

BlockLines(block) == UnindentAll(Split(block, <<NL>>, -1))

\* C8 as stated: the rendering of a bookmark with N highlights has exactly
\* 1 + (1 if excerpt) + (1 if note) + N blocks separated by blank lines, and
\* no line of it has a whitespace run.
C8_BlocksAsStated ==
    pureOut # Unset =>
        /\ Len(Blocks(pureOut)) =
              1 + Count(~Blank(pureIn.excerpt)) + Count(~Blank(pureIn.note))
                + Len(pureIn.highlights)
        /\ \A b \in 1..Len(Blocks(pureOut)) :
              \A l \in 1..Len(BlockLines(Blocks(pureOut)[b])) :
                  SingleSpaced(BlockLines(Blocks(pureOut)[b])[l])

Shown(hl) == ~Blank(hl.text)

\* t is src with every whitespace run collapsed to one space
Collapsed(t, src) == SingleSpaced(t) /\ Words(t) = Words(src)

HighlightBlock(block, hl) ==
    LET lines == BlockLines(block)
    IN  /\ Len(lines) = IF Blank(hl.note) THEN 1 ELSE 3
        /\ StartsWith(lines[1], <<">", SP>>)
        /\ Collapsed(Drop(lines[1], 2), hl.text)
        /\ ~Blank(hl.note) =>
              /\ lines[2] = <<">">>
              /\ lines[3] = <<">", SP, EmDash, SP, "*">> \o Strip(hl.note) \o <<"*">>

\* C8 as amended: for a bookmark whose title, url and highlight notes have no
\* line break, the rendering has exactly 1 link line + (1 if the excerpt is
\* not blank) + (1 if the note is not blank) + one block per highlight whose
\* text is not blank, separated by blank lines and indented by four spaces;
\* whitespace runs are collapsed in the excerpt, the note and the highlight
\* texts, while the title and the highlight notes are written as they are.
C8_Blocks ==
    pureOut # Unset =>
        LET blocks == Blocks(pureOut)
            shown == SelectSeq(pureIn.highlights, Shown)
            e == Count(~Blank(pureIn.excerpt))
            n == Count(~Blank(pureIn.note))
        IN  /\ Len(blocks) = 1 + e + n + Len(shown)
            /\ blocks[1] = <<"-", SP, "[">> \o pureIn.title \o <<"]", "(">>
                           \o pureIn.url \o <<")">>
            /\ \A b \in 2..Len(blocks) : StartsWith(blocks[b], Indent)
            /\ e = 1 => Collapsed(Drop(blocks[2], 4), pureIn.excerpt)
            /\ n = 1 =>
                  LET block == Drop(blocks[2 + e], 4)
                  IN  /\ Len(block) >= 2
                      /\ block[1] = "*" /\ block[Len(block)] = "*"
                      /\ Collapsed(SubSeq(block, 2, Len(block) - 1), pureIn.note)
            /\ \A h \in 1..Len(shown) : HighlightBlock(blocks[1 + e + n + h], shown[h])

C8_Witness ==
    /\ pureOut # Unset
    /\ pureIn.excerpt = <<NL, "e", NL, NL, "f", TAB>>
    /\ pureIn.note # <<>>
    /\ Len(pureIn.highlights) = 2
    /\ Blank(pureIn.highlights[1].text)
    /\ ~Blank(pureIn.highlights[2].note)
    /\ Len(Blocks(pureOut)) = 4

-----------------------------------------------------------------------------
(* fetch_bookmarks: the date filter *)

\* A creation timestamp is <<>> (no "created" field), or
\* <<form, year, month, day, hour, minute>>: the UTC time the text gives,
\* where form "iso" is a text datetime.fromisoformat reads once "Z" is
\* replaced ("2026-01-17T23:30:00.000Z") and form "other" is a text it
\* rejects, which still starts with the ten characters of the date.

LeapYear(y) == (y % 4 = 0 /\ y % 100 # 0) \/ y % 400 = 0

DaysIn(y, m) ==
    IF m = 2 THEN (IF LeapYear(y) THEN 29 ELSE 28)
    ELSE IF m \in {4, 6, 9, 11} THEN 30 ELSE 31

\* the UTC calendar date, without the conversion to the local zone
utc_date(created, utcoffset) == <<created[2], created[3], created[4]>>

\* utc_dt.astimezone().strftime("%Y-%m-%d"): the calendar date of the instant
\* in the local zone, utcoffset minutes east of UTC (an offset is less than
\* a day)
local_date(created, utcoffset) ==
    LET y == created[2]
        m == created[3]
        d == created[4]
        t == created[5] * 60 + created[6] + utcoffset
    IN  IF t < 0
        THEN IF d > 1 THEN <<y, m, d - 1>>
             ELSE IF m > 1 THEN <<y, m - 1, DaysIn(y, m - 1)>>
             ELSE <<y - 1, 12, 31>>
        ELSE IF t >= 1440
        THEN IF d < DaysIn(y, m) THEN <<y, m, d + 1>>
             ELSE IF m < 12 THEN <<y, m + 1, 1>>
             ELSE <<y + 1, 1, 1>>
        ELSE <<y, m, d>>

\* the date the filter compares with the target date
item_date(created, utcoffset) ==
    IF created[1] = "iso"
    THEN local_date(created, utcoffset)
    ELSE <<created[2], created[3], created[4]>>     \* created[:10]

RECURSIVE fetch_bookmarks(_, _, _)
fetch_bookmarks(items, target_date, utcoffset) ==
    IF items = <<>> THEN <<>>
    ELSE LET item == Head(items)
         IN  (IF item.created # <<>> /\ item_date(item.created, utcoffset) = target_date
              THEN <<[title |-> item.title, url |-> item.link, excerpt |-> <<>>,
                      note |-> <<>>, highlights |-> <<>>, created |-> item.created]>>
              ELSE <<>>)
             \o fetch_bookmarks(Tail(items), target_date, utcoffset)

Dates == {<<2026, 1, 17>>, <<2026, 1, 18>>, <<2026, 12, 31>>}
Times == {<<2, 0>>, <<4, 59>>, <<5, 0>>, <<23, 30>>}

CreatedValues ==
    {<<>>}
    \cup { <<"iso", d[1], d[2], d[3], t[1], t[2]>> : d \in Dates, t \in Times }
    \cup { <<"other", 2026, 1, 18, 2, 0>> }

Items == { [title |-> <<"A">>, link |-> <<"u1">>, created |-> c] : c \in CreatedValues }

\* minutes east of UTC: UTC-5, UTC, UTC+1
Offsets == {-300, 0, 60}

TargetDates == {<<2026, 1, 17>>, <<2026, 1, 18>>, <<2027, 1, 1>>}

FetchInputs ==
    [items : UNION { [1..n -> Items] : n \in 1..MaxFetched },
     target_date : TargetDates,
     utcoffset : Offsets]

InitFetch ==
    /\ file = NoFile
    /\ dirExists = FALSE
    /\ remote = 0
    /\ runs = 0
    /\ config = [post_category |-> <<>>, publish_time |-> PublishTime]
    /\ last = NoRun
    /\ pureIn \in FetchInputs
    /\ pureOut = Unset

Fetch ==
    /\ pureOut = Unset
    /\ pureOut' = <<"bookmarks",
                    fetch_bookmarks(pureIn.items, pureIn.target_date, pureIn.utcoffset)>>
    /\ UNCHANGED <<file, dirExists, remote, runs, config, last, pureIn>>

NextFetch == Fetch

SpecFetch == InitFetch /\ [][NextFetch]_vars

Created(y, m, d, h, mi) == <<"iso", y, m, d, h, mi>>

Fetched(created) ==
    \E i \in 1..Len(pureIn.items) : pureIn.items[i].created = created

Included(created) ==
    \E i \in 1..Len(pureOut[2]) : pureOut[2][i].created = created

InUtcMinus5 ==
    /\ pureOut # Unset
    /\ pureIn.target_date = <<2026, 1, 17>>
    /\ pureIn.utcoffset = -300

\* C9 as stated: with target date 2026-01-17 and local zone UTC-5, a fetched
\* item created at 2026-01-17T23:30:00.000Z is included and a fetched item
\* created at 2026-01-18T02:00:00.000Z is excluded.
C9_FilterAsStated ==
    InUtcMinus5 =>
        /\ Fetched(Created(2026, 1, 17, 23, 30)) => Included(Created(2026, 1, 17, 23, 30))
        /\ ~Included(Created(2026, 1, 18, 2, 0))

\* C9 as amended: with target date 2026-01-17 and local zone UTC-5, the items
\* created at 2026-01-17T23:30:00.000Z and at 2026-01-18T02:00:00.000Z (21:00
\* local time on 2026-01-17) are both included, and an item created at
\* 2026-01-18T05:00:00.000Z, the first instant of the next local day, is
\* excluded; the item of 02:00Z is excluded when the local zone is UTC.
C9_Filter ==
    /\ InUtcMinus5 =>
          /\ \A c \in {Created(2026, 1, 17, 23, 30), Created(2026, 1, 18, 2, 0)} :
                Fetched(c) => Included(c)
          /\ ~Included(Created(2026, 1, 18, 5, 0))
    /\ (pureOut # Unset /\ pureIn.target_date = <<2026, 1, 17>> /\ pureIn.utcoffset = 0) =>
          ~Included(Created(2026, 1, 18, 2, 0))

C9_Witness ==
    /\ InUtcMinus5
    /\ pureIn.items[1].created = Created(2026, 1, 18, 2, 0)
    /\ Len(pureIn.items) = 2
    /\ pureIn.items[2].created = Created(2026, 1, 18, 5, 0)
    /\ Len(pureOut[2]) = 1
    /\ pureOut[2][1].created = Created(2026, 1, 18, 2, 0)

====
